---- MODULE Spec2Model ----
(***************************************************************************)
(* ProcPilot agent: the log-session tracker (serviceManager.Log), the      *)
(* packet codec and the connection layer (hosting.Packet, hosting.         *)
(* Connection, hosting.tick).                                              *)
(*                                                                         *)
(* A log file is a sequence of units; an offset counts units.  A unit is   *)
(* a run of bytes of one of four kinds:                                    *)
(*   text   ordinary output that holds no line terminator and does not     *)
(*          start with "--- [PROCPILOT]"                                   *)
(*   mhead  "--- [PROCPILOT] <name> [<tags>] (<time text>"                 *)
(*   mtail  ") ---"                                                        *)
(*   nl     the line terminator                                            *)
(***************************************************************************)
EXTENDS Integers, Sequences, FiniteSets, TLC

VARIABLES
  file,        \* the log file's content, a sequence of units
  unwritten,   \* writer: the units of the line it is in the middle of writing
  written,     \* writer: how many lines it has started (bounds the run)
  log,         \* the Log object: its fields
  handled,     \* history: the lines handed to __handle_line, in order
  rd,          \* the last read_end call: its arguments and what it returned
  codec,       \* one pass of the codec: construct, to_bytes, get_next_packet
  socks,       \* per client: its end of the socket and what it has sent
  backlog,     \* the clients that connected and are not yet accepted
  connections, \* hosting.connections: the Connection objects, in order
  crashed,     \* an exception has left hosting.tick
  extracted,   \* history: what get_next_packet returned, with the connection
  ret,         \* what the last direct get_next_packet call returned
  tmux,        \* the process host: whether the service's session exists
  service,     \* the Service object: auto_start and the is_running cache
  called       \* the last call on the Service: what it returned and ran

logVars == <<file, unwritten, written, log, handled, rd>>
codecVars == <<codec>>
netVars == <<socks, backlog, connections, crashed, extracted, ret>>
svcVars == <<tmux, service, called>>
vars == <<logVars, codecVars, netVars, svcVars>>

\* ------------------------------------------------------------------ bounds

\* lines the writer appends in one run
MaxWrites == 3
\* the small max_read_size a Log may be constructed with
SmallReadSize == 2
\* the largest num_bytes / backwards_offset argument tried besides the large ones
MaxArg == 2
\* the longest sub-type tried over the whole alphabet of characters
MaxShortSub == 3
\* frames the clients send in one run
MaxFrames == 2
\* seconds that pass between two ticks when they are not close together
TickGap == 6

\* -------------------------------------------------------------- constants

MAX_LOG_READ_SIZE == 1015808
MAX_SUBTYPE_LEN == 8
HEADER_SIZE == 13
DEFAULT_CLIENT_TIMEOUT == 10
RECV_SIZE == 4096

\* Python's None, for the integer-valued fields that can hold it
None == -1

\* ------------------------------------------------------------ file units

Unit(k, name, ts) == [k |-> k, name |-> name, ts |-> ts]
TEXT == Unit("text", "", 0)
NL == Unit("nl", "", 0)
MTAIL == Unit("mtail", "", 0)
\* ts = 0: the time text is not a "%Y-%m-%d %H:%M:%S" time; otherwise ts is
\* the value strptime/mktime give for it
MHEAD(name, ts) == Unit("mhead", name, ts)

MarkerNames == {"START", "STOP", "SHUTDOWN", "ERROR", "INFO"}

\* The time a line written when the file holds n units carries.
ClockAt(n) == 100 + n

\* The lines a writer can append to a file of n units.
TextLine == <<TEXT, NL>>
MarkerLine(name, n) == <<MHEAD(name, ClockAt(n)), MTAIL, NL>>
BadTimeLine(n) == <<MHEAD("START", 0), MTAIL, NL>>
LinesAt(n) ==
  {TextLine, BadTimeLine(n)} \cup {MarkerLine(nm, n) : nm \in MarkerNames}

\* ------------------------------------------------------------ Log.Marker

Marker(name, timestamp, pos, line_num) ==
  [name |-> name, timestamp |-> timestamp, pos |-> pos, line_num |-> line_num]

\* Marker.from_line: <<>> for None, <<m>> for a marker
from_line(line) ==
  IF line = <<>> THEN <<>>
  ELSE IF line[1].k # "mhead" THEN <<>>
  ELSE IF ~(Len(line) >= 2 /\ line[2].k = "mtail") THEN <<>>
  ELSE IF line[1].ts = 0 THEN <<>>
  ELSE <<Marker(line[1].name, line[1].ts, 0, 0)>>

\* ------------------------------------------------------- Log.SessionInfo

SessionInfo ==
  [start_pos |-> None, end_pos |-> None, markers |-> <<>>,
   start_time |-> None, end_time |-> None]

\* ------------------------------------------------------------------- Log

NewLog(max_read_size) ==
  [max_read_size |-> max_read_size,
   old_sessions |-> <<>>,
   current_session |-> <<>>,
   current_pos |-> 0,
   current_line |-> 0,
   current_line_start |-> 0]

\* end_session with the end time left at its default (mutant)
end_session_no_time(L, end_pos, end_time) ==
  IF L.current_session # <<>>
  THEN [L EXCEPT
          !.old_sessions = Append(@,
             [L.current_session[1] EXCEPT !.end_pos = end_pos,
                                          !.end_time = None]),
          !.current_session = <<>>]
  ELSE L

\* end_session that puts the closed session at the front (mutant)
end_session_at_front(L, end_pos, end_time) ==
  IF L.current_session # <<>>
  THEN [L EXCEPT
          !.old_sessions =
             <<[L.current_session[1] EXCEPT !.end_pos = end_pos,
                                            !.end_time = end_time]>> \o @,
          !.current_session = <<>>]
  ELSE L

end_session(L, end_pos, end_time) ==
  IF L.current_session # <<>>
  THEN [L EXCEPT
          !.old_sessions = Append(@,
             [L.current_session[1] EXCEPT !.end_pos = end_pos,
                                          !.end_time = end_time]),
          !.current_session = <<>>]
  ELSE L

\* self.current_session.markers.append(line_marker)
AppendMarker(L, m) ==
  [L EXCEPT !.current_session[1].markers = Append(@, m)]

\* a new session is forced also when none is open (mutant)
forces_new_session_when_none(L, line_marker) ==
  line_marker.name = "START" \/ L.current_session = <<>>

\* if line_marker.name == "START"
forces_new_session(L, line_marker) ==
  line_marker.name = "START"

\* the START branch without its call of __end_session (mutant)
start_new_session_drops_old(L, line_marker) ==
  AppendMarker(
    [L EXCEPT !.current_session =
       <<[SessionInfo EXCEPT !.start_pos = line_marker.pos,
                             !.start_time = line_marker.timestamp]>>],
    line_marker)

\* the START branch: end the open session, start a new one, add the marker
start_new_session(L, line_marker) ==
  AppendMarker(
    [end_session(L, line_marker.pos, line_marker.timestamp)
       EXCEPT !.current_session =
         <<[SessionInfo EXCEPT !.start_pos = line_marker.pos,
                               !.start_time = line_marker.timestamp]>>],
    line_marker)

handle_line(L, line) ==
  LET parsed == from_line(line) IN
  IF parsed = <<>> THEN L
  ELSE
    LET line_marker == [parsed[1] EXCEPT !.pos = L.current_line_start,
                                         !.line_num = L.current_line]
        L1 == IF forces_new_session(L, line_marker)
              THEN start_new_session(L, line_marker)
              ELSE L
    IN IF L1.current_session = <<>> THEN L1
       ELSE IF line_marker.name \in {"SHUTDOWN", "STOP", "ERROR"}
       THEN end_session(AppendMarker(L1, line_marker),
                        line_marker.pos, line_marker.timestamp)
       ELSE AppendMarker(L1, line_marker)

\* f.readline() with the file position at pos: up to and including the next
\* terminator, or up to the end of the file when there is none
readline(f, pos) ==
  LET ends == {i \in (pos + 1)..Len(f) : f[i].k = "nl"} IN
  IF ends = {} THEN SubSeq(f, pos + 1, Len(f))
  ELSE SubSeq(f, pos + 1, CHOOSE i \in ends : \A j \in ends : i <= j)

\* handle_new_lines that takes the line's start after reading it (mutant)
RECURSIVE handle_new_lines_late_start(_, _)
handle_new_lines_late_start(L, f) ==
  LET line == readline(f, L.current_pos) IN
  IF line = <<>> THEN L
  ELSE handle_new_lines_late_start(
         handle_line([L EXCEPT !.current_line = @ + 1,
                               !.current_pos = @ + Len(line),
                               !.current_line_start = L.current_pos + Len(line)],
                     line),
         f)

RECURSIVE handle_new_lines(_, _)
handle_new_lines(L, f) ==
  LET line == readline(f, L.current_pos) IN
  IF line = <<>> THEN L
  ELSE handle_new_lines(
         handle_line([L EXCEPT !.current_line = @ + 1,
                               !.current_pos = @ + Len(line),
                               !.current_line_start = L.current_pos],
                     line),
         f)

\* The lines one handle_new_lines hands to __handle_line.
RECURSIVE LinesRead(_, _)
LinesRead(f, pos) ==
  LET line == readline(f, pos) IN
  IF line = <<>> THEN <<>>
  ELSE <<line>> \o LinesRead(f, pos + Len(line))

Min(a, b) == IF a <= b THEN a ELSE b
Max(a, b) == IF a >= b THEN a ELSE b

\* f.read(n) with the file position at pos: the offsets of the units returned
ReadSpan(file_size, pos, n) ==
  IF n < 0 THEN {i \in 0..(file_size - 1) : i >= pos}
  ELSE {i \in 0..(file_size - 1) : i >= pos /\ i < pos + n}

\* read_end without the clamp to the open session (mutant)
read_end_unclamped(L, file_size, num_bytes, backwards_offset, respect) ==
  IF file_size = 0 THEN [start |-> 0, data |-> {}, end |-> 0]
  ELSE
    LET size0 == Min(num_bytes, L.max_read_size)
        start0 == Max(0, file_size - size0 - backwards_offset)
        data == ReadSpan(file_size, start0, size0)
    IN [start |-> start0, data |-> data, end |-> start0 + Cardinality(data)]

\* read_end: the offset the read starts at, the offsets of the units returned,
\* and the end position returned
read_end(L, file_size, num_bytes, backwards_offset, respect) ==
  IF file_size = 0 THEN [start |-> 0, data |-> {}, end |-> 0]
  ELSE
    LET size0 == Min(num_bytes, L.max_read_size)
        start0 == Max(0, file_size - size0 - backwards_offset)
        clamp == respect /\ L.current_session # <<>>
                   /\ L.current_session[1].start_pos # None
        start == IF clamp THEN Max(start0, L.current_session[1].start_pos)
                 ELSE start0
        size == IF clamp THEN Min(size0, file_size - start) ELSE size0
        data == ReadSpan(file_size, start, size)
    IN [start |-> start, data |-> data, end |-> start + Cardinality(data)]

\* ------------------------------------------------------------- the log run

NoRead == [called |-> FALSE]
NoCodec == [pc |-> "off"]

\* No client, no connection.
NoNet ==
  /\ socks = <<>>
  /\ backlog = <<>>
  /\ connections = <<>>
  /\ crashed = FALSE
  /\ extracted = <<>>
  /\ ret = "idle"

\* The process host without a session, or with one whose output is piped.
Host(session) == [session |-> session, piped |-> session]

\* The is_running cache goes stale after this many tenths of a second.
STALE_TIMEOUT == 5

\* Service.__init__ and from_json.  _last_is_running_check_ is kept as its
\* age, the tenths of a second since it was set, capped at one past the
\* stale timeout; it starts at time 0, long ago.
Service(auto_start) ==
  [auto_start |-> auto_start, age |-> STALE_TIMEOUT + 1, result |-> FALSE]

NoCall == [op |-> "none", force |-> FALSE, ret |-> FALSE, cmds |-> <<>>]

\* No service.
NoSvc ==
  /\ tmux = Host(FALSE)
  /\ service = Service(FALSE)
  /\ called = NoCall

\* A log that exists when the Log object is constructed.
ExampleLog ==
  MarkerLine("START", 0) \o TextLine \o TextLine \o MarkerLine("STOP", 7)
    \o MarkerLine("START", 10) \o TextLine

LogInit ==
  /\ file \in {<<>>, ExampleLog}
  /\ unwritten = <<>>
  /\ written = 0
  /\ log = NewLog(MAX_LOG_READ_SIZE)
  /\ handled = <<>>
  /\ rd = NoRead
  /\ codec = NoCodec
  /\ NoNet
  /\ NoSvc

\* The writer appends one of `lines`, whole, in one write.
AppendLine(lines) ==
  /\ unwritten = <<>>
  /\ written < MaxWrites
  /\ \E line \in lines : file' = file \o line
  /\ written' = written + 1
  /\ rd' = NoRead
  /\ UNCHANGED <<unwritten, log, handled>>
  /\ UNCHANGED <<codecVars, netVars, svcVars>>

WriteLine == AppendLine(LinesAt(Len(file)))

\* The writer appends the first k units of a line; the rest follows later.
WritePart ==
  /\ unwritten = <<>>
  /\ written < MaxWrites
  /\ \E line \in LinesAt(Len(file)) : \E k \in 1..(Len(line) - 1) :
       /\ file' = file \o SubSeq(line, 1, k)
       /\ unwritten' = SubSeq(line, k + 1, Len(line))
  /\ written' = written + 1
  /\ rd' = NoRead
  /\ UNCHANGED <<log, handled>>
  /\ UNCHANGED <<codecVars, netVars, svcVars>>

\* The writer appends the rest of the line it started.
WriteRest ==
  /\ unwritten # <<>>
  /\ file' = file \o unwritten
  /\ unwritten' = <<>>
  /\ rd' = NoRead
  /\ UNCHANGED <<written, log, handled>>
  /\ UNCHANGED <<codecVars, netVars, svcVars>>

\* Log.handle_new_lines()
Scan ==
  /\ log' = handle_new_lines(log, file)
  /\ handled' = handled \o LinesRead(file, log.current_pos)
  /\ rd' = NoRead
  /\ UNCHANGED <<file, unwritten, written>>
  /\ UNCHANGED <<codecVars, netVars, svcVars>>

LogNext == WriteLine \/ WritePart \/ WriteRest \/ Scan

SpecLog == LogInit /\ [][LogNext]_vars

\* ------------------------------------------------------- the read_end run

ReadInit ==
  /\ file \in {<<>>, ExampleLog}
  /\ unwritten = <<>>
  /\ written = 0
  /\ log \in {NewLog(m) : m \in {SmallReadSize, MAX_LOG_READ_SIZE}}
  /\ handled = <<>>
  /\ rd = NoRead
  /\ codec = NoCodec
  /\ NoNet
  /\ NoSvc

\* The writer of this run appends text lines and the markers that
\* write_startup_marker and write_stop_marker write.
WriteRun ==
  AppendLine({TextLine, MarkerLine("START", Len(file)),
              MarkerLine("STOP", Len(file))})

\* byte counts and offsets: naturals
NumBytesArgs == 0..MaxArg \cup {MAX_LOG_READ_SIZE + 1}
OffsetArgs == 0..MaxArg

\* Log.read_end(num_bytes, backwards_offset, respect_current_session)
ReadEnd ==
  /\ \E n \in NumBytesArgs, off \in OffsetArgs, respect \in BOOLEAN :
       rd' = [called |-> TRUE, num_bytes |-> n, backwards_offset |-> off,
              respect |-> respect, file_size |-> Len(file),
              ret |-> read_end(log, Len(file), n, off, respect)]
  /\ UNCHANGED <<file, unwritten, written, log, handled>>
  /\ UNCHANGED <<codecVars, netVars, svcVars>>

ReadNext == WriteRun \/ Scan \/ ReadEnd

SpecRead == ReadInit /\ [][ReadNext]_vars

\* ======================================================================
\* hosting.Packet
\* ======================================================================

\* A str is a sequence of code points, a bytes object a sequence of 0..255.

\* str.encode('utf-8') of one code point
Utf8Char(cp) ==
  IF cp < 128 THEN <<cp>>
  ELSE IF cp < 2048 THEN <<192 + (cp \div 64), 128 + (cp % 64)>>
  ELSE IF cp < 65536
  THEN <<224 + (cp \div 4096), 128 + ((cp \div 64) % 64), 128 + (cp % 64)>>
  ELSE <<240 + (cp \div 262144), 128 + ((cp \div 4096) % 64),
         128 + ((cp \div 64) % 64), 128 + (cp % 64)>>

\* str.encode('utf-8')
RECURSIVE Utf8Encode(_)
Utf8Encode(str) ==
  IF str = <<>> THEN <<>>
  ELSE Utf8Char(Head(str)) \o Utf8Encode(Tail(str))

IsCont(b) == b >= 128 /\ b <= 191

\* The length of the well-formed UTF-8 sequence that starts b, 0 when none.
Utf8SeqLen(b) ==
  IF b = <<>> THEN 0
  ELSE IF b[1] < 128 THEN 1
  ELSE IF b[1] >= 194 /\ b[1] <= 223
  THEN IF Len(b) >= 2 /\ IsCont(b[2]) THEN 2 ELSE 0
  ELSE IF b[1] >= 224 /\ b[1] <= 239
  THEN IF /\ Len(b) >= 3 /\ IsCont(b[2]) /\ IsCont(b[3])
          /\ (b[1] = 224 => b[2] >= 160)
          /\ (b[1] = 237 => b[2] <= 159)
       THEN 3 ELSE 0
  ELSE IF b[1] >= 240 /\ b[1] <= 244
  THEN IF /\ Len(b) >= 4 /\ IsCont(b[2]) /\ IsCont(b[3]) /\ IsCont(b[4])
          /\ (b[1] = 240 => b[2] >= 144)
          /\ (b[1] = 244 => b[2] <= 143)
       THEN 4 ELSE 0
  ELSE 0

Utf8CodePoint(b, n) ==
  IF n = 1 THEN b[1]
  ELSE IF n = 2 THEN (b[1] - 192) * 64 + (b[2] - 128)
  ELSE IF n = 3 THEN (b[1] - 224) * 4096 + (b[2] - 128) * 64 + (b[3] - 128)
  ELSE (b[1] - 240) * 262144 + (b[2] - 128) * 4096 + (b[3] - 128) * 64
         + (b[4] - 128)

\* bytes.decode('utf-8'): [ok |-> TRUE, str |-> ...], or [ok |-> FALSE] for
\* UnicodeDecodeError.  A character starts at every byte that is not a
\* continuation byte, so a long input is decoded in two halves cut at one.
RECURSIVE Utf8Decode(_)
Utf8Decode(b) ==
  IF b = <<>> THEN [ok |-> TRUE, str |-> <<>>]
  ELSE
    LET cuts == {j \in 2..Len(b) : ~IsCont(b[j])}
        n == Utf8SeqLen(b)
    IN IF Len(b) > 4 /\ cuts # {}
       THEN LET mid == Len(b) \div 2
                cut == CHOOSE j \in cuts : \A i \in cuts :
                         (IF j >= mid THEN j - mid ELSE mid - j)
                           <= (IF i >= mid THEN i - mid ELSE mid - i)
                left == Utf8Decode(SubSeq(b, 1, cut - 1))
                right == Utf8Decode(SubSeq(b, cut, Len(b)))
            IN [ok |-> left.ok /\ right.ok, str |-> left.str \o right.str]
       ELSE IF n = 0 THEN [ok |-> FALSE, str |-> <<>>]
       ELSE LET rest == Utf8Decode(SubSeq(b, n + 1, Len(b))) IN
            [ok |-> rest.ok, str |-> <<Utf8CodePoint(b, n)>> \o rest.str]

\* bytes.rstrip(b'\x00')
RECURSIVE RStripZero(_)
RStripZero(b) ==
  IF b # <<>> /\ b[Len(b)] = 0 THEN RStripZero(SubSeq(b, 1, Len(b) - 1))
  ELSE b

\* bytes[:8].ljust(8, b'\x00')
Field8(b) ==
  [i \in 1..MAX_SUBTYPE_LEN |-> IF i <= Len(b) THEN b[i] ELSE 0]

\* The characters of the texts the model sends: "A", "{", "}", "e" with an
\* acute accent (two bytes in UTF-8) and NUL.  "{}" is the only JSON text
\* over them.
LetterA == 65
BraceOpen == 123
BraceClose == 125
EAcute == 233

\* json.loads(text): ok with the value, or JSONDecodeError
JsonLoads(str) ==
  IF str = <<BraceOpen, BraceClose>>
  THEN [ok |-> TRUE, value |-> "{}"]
  ELSE [ok |-> FALSE, value |-> "JSONDecodeError"]

RAW == 1
JSON == 2

Raise(error) == [ok |-> FALSE, error |-> error]

\* Packet.__init__
Packet(packet_type, packet_sub_type, raw_bytes) ==
  IF Len(packet_sub_type) > MAX_SUBTYPE_LEN THEN Raise("ValueError")
  ELSE IF packet_type = JSON /\ ~Utf8Decode(raw_bytes).ok
  THEN Raise("UnicodeDecodeError")
  ELSE IF packet_type = JSON /\ ~JsonLoads(Utf8Decode(raw_bytes).str).ok
  THEN Raise("ValueError")
  ELSE [ok |-> TRUE,
        type |-> packet_type,
        sub_type |-> packet_sub_type,
        bytes |-> raw_bytes,
        full_size |-> HEADER_SIZE + Len(raw_bytes),
        json |-> IF packet_type = JSON
                 THEN JsonLoads(Utf8Decode(raw_bytes).str).value
                 ELSE "None"]

\* Packet.get_length
get_length(length_bytes) ==
  IF Len(length_bytes) < 4 THEN -1
  ELSE length_bytes[1] * 16777216 + length_bytes[2] * 65536
         + length_bytes[3] * 256 + length_bytes[4]

\* to_length that writes only the low byte (mutant)
to_length_low_byte(length) ==
  <<0, 0, 0, length % 256>>

\* Packet.to_length
to_length(length) ==
  <<(length \div 16777216) % 256, (length \div 65536) % 256,
    (length \div 256) % 256, length % 256>>

\* Packet.check_complete
check_complete(buffer) ==
  IF Len(buffer) < HEADER_SIZE THEN FALSE
  ELSE Len(buffer) >= HEADER_SIZE + get_length(SubSeq(buffer, 10, 13))

\* Packet.from_buffer
from_buffer(buffer) ==
  IF ~check_complete(buffer) THEN Raise("ValueError")
  ELSE
    LET packet_type == buffer[1]
        sub == Utf8Decode(RStripZero(SubSeq(buffer, 2, 9)))
        length == get_length(SubSeq(buffer, 10, 13))
        payload == SubSeq(buffer, 14, 13 + length)
    IN IF ~sub.ok THEN Raise("ValueError")
       ELSE Packet(packet_type, sub.str, payload)

\* Packet.to_bytes
to_bytes(packet) ==
  <<packet.type>> \o Field8(Utf8Encode(packet.sub_type))
    \o to_length(Len(packet.bytes)) \o packet.bytes

\* get_next_packet that removes only the header of the frame (mutant)
get_next_packet_keeps_payload(buffer) ==
  IF ~check_complete(buffer) THEN [ret |-> "None", buffer |-> buffer]
  ELSE LET packet == from_buffer(buffer) IN
       IF ~packet.ok
       THEN [ret |-> "raise", error |-> packet.error, buffer |-> buffer]
       ELSE [ret |-> "packet", packet |-> packet,
             buffer |-> SubSeq(buffer, HEADER_SIZE + 1, Len(buffer))]

\* Connection.get_next_packet on a buffer: what it returns ("None", a packet
\* or an exception) and the buffer it leaves
get_next_packet(buffer) ==
  IF ~check_complete(buffer) THEN [ret |-> "None", buffer |-> buffer]
  ELSE LET packet == from_buffer(buffer) IN
       IF ~packet.ok
       THEN [ret |-> "raise", error |-> packet.error, buffer |-> buffer]
       ELSE [ret |-> "packet", packet |-> packet,
             buffer |-> SubSeq(buffer, packet.full_size + 1, Len(buffer))]

\* ---------------------------------------------------------- the codec run

SeqsUpTo(S, n) == UNION {[1..k -> S] : k \in 0..n}

\* Sub-types: every short one, and those around the length limit.
SubTypeArgs ==
  SeqsUpTo({0, LetterA, EAcute}, MaxShortSub)
    \cup [1..MAX_SUBTYPE_LEN -> {LetterA, EAcute}]
    \cup [1..(MAX_SUBTYPE_LEN + 1) -> {LetterA, EAcute}]

\* Payloads: empty, not JSON, JSON, and one whose length needs two bytes.
PayloadArgs ==
  {<<>>, <<LetterA>>, <<BraceOpen, BraceClose>>,
   [i \in 1..(256 + MaxShortSub) |-> LetterA]}

\* The bytes that follow the frame in the receive buffer.
FollowingBytes == {<<>>, <<RAW>>}

CodecInit ==
  /\ codec \in {[pc |-> "args", type |-> t, sub_type |-> st, raw_bytes |-> rb,
                 following |-> fb] :
                  t \in {RAW, JSON, 3}, st \in SubTypeArgs,
                  rb \in PayloadArgs, fb \in FollowingBytes}
  /\ file = <<>>
  /\ unwritten = <<>>
  /\ written = 0
  /\ log = NewLog(MAX_LOG_READ_SIZE)
  /\ handled = <<>>
  /\ rd = NoRead
  /\ NoNet
  /\ NoSvc

\* Packet(type, sub_type, raw_bytes)
Construct ==
  /\ codec.pc = "args"
  /\ LET p == Packet(codec.type, codec.sub_type, codec.raw_bytes) IN
       codec' = [pc |-> IF p.ok THEN "packet" ELSE "rejected",
                 type |-> codec.type, sub_type |-> codec.sub_type,
                 raw_bytes |-> codec.raw_bytes, following |-> codec.following,
                 packet |-> p]
  /\ UNCHANGED <<logVars, netVars, svcVars>>

\* packet.to_bytes(), the frame put in front of the following bytes
Encode ==
  /\ codec.pc = "packet"
  /\ codec' = [pc |-> "encoded",
               type |-> codec.type, sub_type |-> codec.sub_type,
               raw_bytes |-> codec.raw_bytes, following |-> codec.following,
               packet |-> codec.packet,
               buffer |-> to_bytes(codec.packet) \o codec.following]
  /\ UNCHANGED <<logVars, netVars, svcVars>>

\* get_next_packet() on that buffer
Decode ==
  /\ codec.pc = "encoded"
  /\ codec' = [pc |-> "decoded",
               type |-> codec.type, sub_type |-> codec.sub_type,
               raw_bytes |-> codec.raw_bytes, following |-> codec.following,
               packet |-> codec.packet,
               buffer |-> codec.buffer,
               got |-> get_next_packet(codec.buffer)]
  /\ UNCHANGED <<logVars, netVars, svcVars>>

CodecNext == Construct \/ Encode \/ Decode

SpecCodec == CodecInit /\ [][CodecNext]_vars

\* ======================================================================
\* hosting.Connection and hosting.tick
\* ======================================================================

MaxClients == 2
Clients == 1..MaxClients

\* "PRINT", "CLOSE", "PRINT_J"
PRINT == <<80, 82, 73, 78, 84>>
CLOSE == <<67, 76, 79, 83, 69>>
PRINT_J == <<80, 82, 73, 78, 84, 95, 74>>

\* Connection.__init__.  last_active is kept as its age, the seconds since
\* it was set, capped at one past the timeout.
Connection(id) ==
  [id |-> id, buffer |-> <<>>, closed |-> FALSE, idle |-> 0]

\* A client's end: the bytes it has sent that the agent has not yet
\* received, whether it is still open, the packets it has sent, and whether
\* it has connected at all.
NewSock == [stream |-> <<>>, open |-> TRUE, sent |-> <<>>, used |-> TRUE]
\* A client that has not connected.
NoSock == [stream |-> <<>>, open |-> FALSE, sent |-> <<>>, used |-> FALSE]

\* Connection.close
close(c) == [c EXCEPT !.closed = TRUE]

\* Connection.fill_buffer when recv hands over the first k bytes of the
\* stream; with an empty stream recv raises BlockingIOError while the peer
\* is open and returns b"" once it has closed
fill_buffer(c, sock, k) ==
  IF sock.stream # <<>>
  THEN [c EXCEPT !.buffer = @ \o SubSeq(sock.stream, 1, k), !.idle = 0]
  ELSE IF sock.open THEN c
  ELSE close(c)

\* The client's end after that recv.
AfterRecv(sock, k) ==
  [sock EXCEPT !.stream = SubSeq(@, k + 1, Len(@))]

\* Connection.check_timeout: FALSE when it closes the connection
check_timeout(c) == ~(c.idle > DEFAULT_CLIENT_TIMEOUT)

\* The age of last_active after d more seconds.
Aged(c, d) ==
  [c EXCEPT !.idle = Min(@ + d, DEFAULT_CLIENT_TIMEOUT + 1)]

\* The handlers of tick for one packet: the connection afterwards, and
\* whether an exception left the handler.
dispatch(c, packet) ==
  LET c1 == IF packet.sub_type = CLOSE THEN close(c) ELSE c IN
  IF packet.sub_type = PRINT /\ ~Utf8Decode(packet.bytes).ok
  THEN [conn |-> c1, raised |-> TRUE]
  ELSE IF packet.sub_type = PRINT_J
  THEN [conn |-> c1, raised |-> TRUE]
  ELSE [conn |-> c1, raised |-> FALSE]

\* The body of tick's loop over the connections, from the i-th on.  N is
\* the state [connections, socks, crashed, extracted]; take[id] is how many
\* bytes recv can hand over at most on the connection of client id.
RECURSIVE tick_loop(_, _, _)
tick_loop(N, i, take) ==
  IF i > Len(N.connections) THEN N
  ELSE
    LET c == N.connections[i] IN
    IF ~check_timeout(c)
    THEN tick_loop([N EXCEPT !.connections[i] = close(c)], i + 1, take)
    ELSE
      LET sock == N.socks[c.id]
          k == Min(Min(take[c.id], RECV_SIZE), Len(sock.stream))
          c1 == fill_buffer(c, sock, k)
          got == get_next_packet(c1.buffer)
          N1 == [N EXCEPT !.connections[i] = c1,
                          !.socks[c.id] = AfterRecv(sock, k)]
      IN IF got.ret = "raise" THEN [N1 EXCEPT !.crashed = TRUE]
         ELSE IF got.ret = "None" THEN tick_loop(N1, i + 1, take)
         ELSE
           LET c2 == [c1 EXCEPT !.buffer = got.buffer]
               done == dispatch(c2, got.packet)
               N2 == [N1 EXCEPT
                        !.connections[i] = done.conn,
                        !.extracted = Append(@, [id |-> c.id,
                                                 packet |-> got.packet])]
           IN IF done.raised THEN [N2 EXCEPT !.crashed = TRUE]
              ELSE tick_loop(N2, i + 1, take)

\* hosting.tick, d seconds after the tick before it
tick(N, pending, d, take) ==
  LET aged == [i \in 1..Len(N.connections) |-> Aged(N.connections[i], d)]
      accepted == IF pending # <<>>
                  THEN Append(aged, Connection(Head(pending)))
                  ELSE aged
      NotClosed(c) == ~c.closed
      live == SelectSeq(accepted, NotClosed)
  IN tick_loop([N EXCEPT !.connections = live], 1, take)

\* ----------------------------------------------------- the packets sent

\* The packets a client sends.
ClientPackets ==
  {Packet(RAW, PRINT, <<LetterA>>),
   Packet(JSON, <<LetterA>>, <<BraceOpen, BraceClose>>),
   Packet(RAW, <<EAcute>>, <<>>),
   Packet(RAW, CLOSE, <<>>)}

\* The number of frames the clients up to n have sent.
RECURSIVE SentUpTo(_)
SentUpTo(n) ==
  IF n = 0 THEN 0 ELSE Len(socks[n].sent) + SentUpTo(n - 1)

FramesSent == SentUpTo(MaxClients)

\* A client sends the frame of one of `packets`.
Send(packets) ==
  /\ ~crashed
  /\ FramesSent < MaxFrames
  /\ \E id \in DOMAIN socks, packet \in packets :
       /\ socks[id].open
       /\ socks' = [socks EXCEPT ![id].stream = @ \o to_bytes(packet),
                                 ![id].sent = Append(@, packet)]
  /\ UNCHANGED <<backlog, connections, crashed, extracted, ret>>
  /\ UNCHANGED <<logVars, codecVars, svcVars>>

ClientSend == Send(ClientPackets)

\* A client closes its end.
ClientClose ==
  /\ ~crashed
  /\ \E id \in DOMAIN socks :
       /\ socks[id].open
       /\ socks' = [socks EXCEPT ![id].open = FALSE]
  /\ UNCHANGED <<backlog, connections, crashed, extracted, ret>>
  /\ UNCHANGED <<logVars, codecVars, svcVars>>

OtherInit ==
  /\ file = <<>>
  /\ unwritten = <<>>
  /\ written = 0
  /\ log = NewLog(MAX_LOG_READ_SIZE)
  /\ handled = <<>>
  /\ rd = NoRead
  /\ codec = NoCodec
  /\ NoSvc

\* ------------------------------------------------- one Connection's run

\* A Connection on the accepted socket of client 1.
ConnInit ==
  /\ socks = [id \in Clients |-> IF id = 1 THEN NewSock ELSE NoSock]
  /\ backlog = <<>>
  /\ connections = <<Connection(1)>>
  /\ crashed = FALSE
  /\ extracted = <<>>
  /\ ret = "idle"
  /\ OtherInit

\* connections[1].fill_buffer(), recv handing over any part of the stream
FillBuffer ==
  /\ \E k \in 1..Max(1, Min(RECV_SIZE, Len(socks[1].stream))) :
       /\ connections' =
            [connections EXCEPT ![1] = fill_buffer(@, socks[1], k)]
       /\ socks' = [socks EXCEPT ![1] = AfterRecv(@, k)]
  /\ ret' = "idle"
  /\ UNCHANGED <<backlog, crashed, extracted>>
  /\ UNCHANGED <<logVars, codecVars, svcVars>>

\* connections[1].get_next_packet()
GetNextPacket ==
  /\ LET got == get_next_packet(connections[1].buffer) IN
       /\ ret' = got.ret
       /\ connections' = [connections EXCEPT ![1].buffer = got.buffer]
       /\ extracted' = IF got.ret = "packet"
                       THEN Append(extracted,
                                   [id |-> 1, packet |-> got.packet])
                       ELSE extracted
  /\ UNCHANGED <<socks, backlog, crashed>>
  /\ UNCHANGED <<logVars, codecVars, svcVars>>

ConnNext == ClientSend \/ ClientClose \/ FillBuffer \/ GetNextPacket

SpecConn == ConnInit /\ [][ConnNext]_vars

\* ------------------------------------------------------ the agent's run

NetInit ==
  /\ socks = [id \in Clients |-> NoSock]
  /\ backlog = <<>>
  /\ connections = <<>>
  /\ crashed = FALSE
  /\ extracted = <<>>
  /\ ret = "idle"
  /\ OtherInit

\* A client connects to the agent's socket.
ClientConnect ==
  /\ ~crashed
  /\ \E id \in Clients :
       /\ socks[id] = NoSock
       /\ socks' = [socks EXCEPT ![id] = NewSock]
       /\ backlog' = Append(backlog, id)
  /\ UNCHANGED <<connections, crashed, extracted, ret>>
  /\ UNCHANGED <<logVars, codecVars, svcVars>>

\* How many bytes a recv can hand over at most: a header, or all that recv
\* takes; only the last when nothing is there to hand over.
TakeChoices ==
  {take \in [Clients -> {HEADER_SIZE, RECV_SIZE}] :
     \A id \in Clients :
       (socks[id].stream = <<>> \/ \A i \in 1..Len(connections) :
                                     connections[i].id # id)
         => take[id] = RECV_SIZE}

\* hosting.tick(), called some d of `gaps` seconds after the tick before it
TickAfter(gaps) ==
  /\ ~crashed
  /\ \E d \in gaps, take \in TakeChoices :
       \E N \in {tick([connections |-> connections, socks |-> socks,
                       crashed |-> FALSE, extracted |-> extracted],
                      backlog, d, take)} :
          /\ connections' = N.connections
          /\ socks' = N.socks
          /\ crashed' = N.crashed
          /\ extracted' = N.extracted
  /\ backlog' = IF backlog # <<>> THEN Tail(backlog) ELSE backlog
  /\ UNCHANGED ret
  /\ UNCHANGED <<logVars, codecVars, svcVars>>

\* hosting.tick(), right after the tick before it or a while later
Tick == TickAfter({0, TickGap})

\* The packets of the agent's handlers, and one it has no handler for.
HandledPackets ==
  {Packet(RAW, PRINT, <<LetterA>>),
   Packet(RAW, CLOSE, <<>>),
   Packet(JSON, <<LetterA>>, <<BraceOpen, BraceClose>>)}

\* Frames that make the agent raise: a PRINT_J packet whose JSON has no
\* "message" key, and a JSON-typed frame, written by hand, whose payload is
\* not JSON.
FaultyFrames ==
  {Packet(JSON, PRINT_J, <<BraceOpen, BraceClose>>),
   [ok |-> TRUE, type |-> JSON, sub_type |-> <<LetterA>>,
    bytes |-> <<LetterA>>, full_size |-> HEADER_SIZE + 1, json |-> "None"]}

ClientSendHandled == Send(HandledPackets \cup FaultyFrames)

NetNext == ClientConnect \/ ClientSendHandled \/ ClientClose \/ Tick

SpecNet == NetInit /\ [][NetNext]_vars

\* ------------------------------------------- a header with a huge LENGTH

MAX_PACKET_SIZE == 1048576

\* payload bytes the client sends after such a header
MaxExtra == 3

\* LENGTH fields for which 13 + LENGTH is above MAX_PACKET_SIZE: the
\* smallest one and one that needs the field's highest byte.
OversizeLengths == {MAX_PACKET_SIZE - HEADER_SIZE + 1, 16777216}

\* The header of a frame with that LENGTH, as a client writes it.
OversizeHeader(packet_type, length) ==
  <<packet_type>> \o Field8(Utf8Encode(PRINT)) \o to_length(length)

\* The bytes client 1 has written: nothing of them is ever removed from
\* the buffer in this run.
WireLen == Len(socks[1].stream) + Len(connections[1].buffer)

\* The client writes a header whose LENGTH is above the cap.
ClientSendHeader ==
  /\ socks[1].open
  /\ WireLen = 0
  /\ \E packet_type \in {RAW, JSON}, length \in OversizeLengths :
       socks' = [socks EXCEPT
                   ![1].stream = OversizeHeader(packet_type, length)]
  /\ UNCHANGED <<backlog, connections, crashed, extracted, ret>>
  /\ UNCHANGED <<logVars, codecVars, svcVars>>

\* The client writes one more byte of the payload.
ClientSendPayload ==
  /\ socks[1].open
  /\ WireLen >= HEADER_SIZE
  /\ WireLen < HEADER_SIZE + MaxExtra
  /\ socks' = [socks EXCEPT ![1].stream = Append(@, LetterA)]
  /\ UNCHANGED <<backlog, connections, crashed, extracted, ret>>
  /\ UNCHANGED <<logVars, codecVars, svcVars>>

WireNext ==
  \/ ClientSendHeader
  \/ ClientSendPayload
  \/ ClientClose
  \/ FillBuffer
  \/ GetNextPacket

SpecWire == ConnInit /\ [][WireNext]_vars

\* ------------------------------------------------- the client script's run

\* frames the client script sends before it closes
MaxScriptFrames == 4

\* client.py: connect
ScriptConnect ==
  /\ socks[1] = NoSock
  /\ socks' = [socks EXCEPT ![1] = NewSock]
  /\ backlog' = Append(backlog, 1)
  /\ UNCHANGED <<connections, crashed, extracted, ret>>
  /\ UNCHANGED <<logVars, codecVars, svcVars>>

\* client.py: send a PRINT frame
ScriptSend ==
  /\ socks[1].open
  /\ Len(socks[1].sent) < MaxScriptFrames
  /\ LET packet == Packet(RAW, PRINT, <<LetterA>>) IN
       socks' = [socks EXCEPT ![1].stream = @ \o to_bytes(packet),
                              ![1].sent = Append(@, packet)]
  /\ UNCHANGED <<backlog, connections, crashed, extracted, ret>>
  /\ UNCHANGED <<logVars, codecVars, svcVars>>

\* agent.py's loop calls hosting.tick() every 0.2 s: no connection times
\* out between two ticks
PromptTick == TickAfter({0})

ScriptNext == ScriptConnect \/ ScriptSend \/ ClientClose \/ PromptTick

SpecScript == NetInit /\ [][ScriptNext]_vars

\* ======================================================================
\* serviceManager.Service and ServiceManager.tick
\* ======================================================================

\* is_running that asks the process host every time (mutant)
is_running_never_cached(S, host, force_refresh) ==
  [service |-> [S EXCEPT !.result = host.session, !.age = 0],
   ret |-> host.session,
   cmds |-> <<"tmux has-session">>]

\* Service.is_running: the service afterwards, what it returns, and the
\* commands it ran
is_running(S, host, force_refresh) ==
  IF force_refresh \/ S.age > STALE_TIMEOUT
  THEN [service |-> [S EXCEPT !.result = host.session, !.age = 0],
        ret |-> host.session,
        cmds |-> <<"tmux has-session">>]
  ELSE [service |-> S, ret |-> S.result, cmds |-> <<>>]

\* start_service that trusts the cached is_running result (mutant)
start_service_uses_cache(S, host, f) ==
  LET check == is_running(S, host, FALSE) IN
  IF check.ret
  THEN [service |-> check.service, tmux |-> host, file |-> f,
        ret |-> FALSE, cmds |-> check.cmds]
  ELSE [service |-> check.service,
        tmux |-> [session |-> TRUE, piped |-> TRUE],
        file |-> f \o MarkerLine("START", Len(f)),
        ret |-> TRUE,
        cmds |-> check.cmds
                   \o <<"write START", "tmux new-session", "tmux pipe-pane">>]

\* Service.start_service on the log file f: the service, the host and the
\* file afterwards, what it returns, and the commands and writes in order
start_service(S, host, f) ==
  LET check == is_running(S, host, TRUE) IN
  IF check.ret
  THEN [service |-> check.service, tmux |-> host, file |-> f,
        ret |-> FALSE, cmds |-> check.cmds]
  ELSE [service |-> check.service,
        tmux |-> [session |-> TRUE, piped |-> TRUE],
        file |-> f \o MarkerLine("START", Len(f)),
        ret |-> TRUE,
        cmds |-> check.cmds
                   \o <<"write START", "tmux new-session", "tmux pipe-pane">>]

\* stop_service that writes the STOP marker before it kills the session
\* (mutant)
stop_service_marker_first(S, host, f) ==
  LET check == is_running(S, host, TRUE) IN
  IF ~check.ret
  THEN [service |-> check.service, tmux |-> host, file |-> f,
        ret |-> FALSE, cmds |-> check.cmds]
  ELSE [service |-> check.service,
        tmux |-> [session |-> FALSE, piped |-> FALSE],
        file |-> f \o MarkerLine("STOP", Len(f)),
        ret |-> TRUE,
        cmds |-> check.cmds \o <<"write STOP", "tmux kill-session">>]

\* Service.stop_service
stop_service(S, host, f) ==
  LET check == is_running(S, host, TRUE) IN
  IF ~check.ret
  THEN [service |-> check.service, tmux |-> host, file |-> f,
        ret |-> FALSE, cmds |-> check.cmds]
  ELSE [service |-> check.service,
        tmux |-> [session |-> FALSE, piped |-> FALSE],
        file |-> f \o MarkerLine("STOP", Len(f)),
        ret |-> TRUE,
        cmds |-> check.cmds \o <<"tmux kill-session", "write STOP">>]

\* tick that starts every service that is not running (mutant)
manager_tick_ignores_auto_start(S, host, f) ==
  LET check == is_running(S, host, TRUE) IN
  IF ~check.ret
  THEN LET started == start_service(check.service, host, f) IN
       [started EXCEPT !.cmds = check.cmds \o @]
  ELSE [service |-> check.service, tmux |-> host, file |-> f,
        ret |-> FALSE, cmds |-> check.cmds]

\* The body of ServiceManager.tick's loop for one service, after its
\* handle_new_lines: ret tells whether start_service was called
manager_tick(S, host, f) ==
  LET check == is_running(S, host, TRUE) IN
  IF S.auto_start /\ ~check.ret
  THEN LET started == start_service(check.service, host, f) IN
       [started EXCEPT !.cmds = check.cmds \o @]
  ELSE [service |-> IF S.auto_start THEN check.service ELSE S,
        tmux |-> host, file |-> f,
        ret |-> FALSE,
        cmds |-> IF S.auto_start THEN check.cmds ELSE <<>>]

\* -------------------------------------------------------- the service run

SvcInit ==
  /\ file = <<>>
  /\ unwritten = <<>>
  /\ written = 0
  /\ log = handle_new_lines(NewLog(MAX_LOG_READ_SIZE), <<>>)
  /\ handled = <<>>
  /\ rd = NoRead
  /\ codec = NoCodec
  /\ NoNet
  /\ tmux \in {Host(FALSE), Host(TRUE)}
  /\ service \in {Service(auto_start) : auto_start \in BOOLEAN}
  /\ called = NoCall

\* What a call leaves behind: the service, the host and the log file.  A
\* call that writes a line is one of the run's MaxWrites writes.
Leaves(op, force, done) ==
  /\ done.file # file => written < MaxWrites
  /\ service' = done.service
  /\ tmux' = done.tmux
  /\ file' = done.file
  /\ written' = IF done.file # file THEN written + 1 ELSE written
  /\ called' = [op |-> op, force |-> force, ret |-> done.ret,
                cmds |-> done.cmds]
  /\ rd' = NoRead
  /\ UNCHANGED unwritten
  /\ UNCHANGED <<codecVars, netVars>>

\* service.is_running(force_refresh)
IsRunning ==
  \E force_refresh \in BOOLEAN :
    \E done \in {is_running(service, tmux, force_refresh)} :
      /\ Leaves("is_running", force_refresh,
                [service |-> done.service, tmux |-> tmux, file |-> file,
                 ret |-> done.ret, cmds |-> done.cmds])
      /\ UNCHANGED <<log, handled>>

\* service.start_service()
StartService ==
  /\ \E done \in {start_service(service, tmux, file)} :
       Leaves("start_service", FALSE, done)
  /\ UNCHANGED <<log, handled>>

\* service.stop_service()
StopService ==
  /\ \E done \in {stop_service(service, tmux, file)} :
       Leaves("stop_service", FALSE, done)
  /\ UNCHANGED <<log, handled>>

\* ServiceManager.tick()
ManagerTick ==
  /\ log' = handle_new_lines(log, file)
  /\ handled' = handled \o LinesRead(file, log.current_pos)
  /\ \E done \in {manager_tick(service, tmux, file)} :
       Leaves("tick", FALSE, done)

\* The service's process ends, and its session with it.
SessionExit ==
  /\ tmux.session
  /\ tmux' = Host(FALSE)
  /\ called' = NoCall
  /\ UNCHANGED service
  /\ UNCHANGED <<logVars, codecVars, netVars>>

\* The service's process prints a line; pipe-pane appends it to the log.
HostOutput ==
  /\ tmux.session /\ tmux.piped
  /\ unwritten = <<>>
  /\ written < MaxWrites
  /\ file' = file \o TextLine
  /\ written' = written + 1
  /\ called' = NoCall
  /\ rd' = NoRead
  /\ UNCHANGED <<unwritten, log, handled>>
  /\ UNCHANGED <<tmux, service>>
  /\ UNCHANGED <<codecVars, netVars>>

\* Time passes: a tenth of a second, or the whole stale timeout.
TimePasses ==
  /\ \E d \in {1, STALE_TIMEOUT} :
       service' = [service EXCEPT
                     !.age = Min(@ + d, STALE_TIMEOUT + 1)]
  /\ called' = NoCall
  /\ UNCHANGED tmux
  /\ UNCHANGED <<logVars, codecVars, netVars>>

SvcNext ==
  \/ IsRunning
  \/ StartService
  \/ StopService
  \/ ManagerTick
  \/ SessionExit
  \/ HostOutput
  \/ TimePasses

SpecSvc == SvcInit /\ [][SvcNext]_vars

\* ======================================================================
\* Properties of the log tracker
\* ======================================================================

\* The offsets at which handle_new_lines, started at pos, begins a line.
RECURSIVE LineStarts(_, _)
LineStarts(f, pos) ==
  LET line == readline(f, pos) IN
  IF line = <<>> THEN {}
  ELSE {pos} \cup LineStarts(f, pos + Len(line))

\* The Log just before and just after the loop of handle_new_lines, run on
\* `file` from `log`, handles the line that starts at offset p.
Before(p) == handle_new_lines(log, SubSeq(file, 1, p))
After(p) == handle_new_lines(log, SubSeq(file, 1, p + Len(readline(file, p))))

\* The marker the line at offset p is parsed to, as __handle_line completes it.
MarkerAt(p) ==
  LET m == from_line(readline(file, p)) IN
  IF m = <<>> THEN <<>>
  ELSE <<[m[1] EXCEPT !.pos = p, !.line_num = Before(p).current_line + 1]>>

IsPrefix(s, t) == Len(s) <= Len(t) /\ SubSeq(t, 1, Len(s)) = s

Terminating == {"STOP", "SHUTDOWN", "ERROR"}

StartHandled(p) ==
  LET m == MarkerAt(p)[1]
      B == Before(p)
      A == After(p)
  IN /\ A.old_sessions =
          IF B.current_session # <<>>
          THEN Append(B.old_sessions,
                      [B.current_session[1] EXCEPT !.end_pos = m.pos,
                                                   !.end_time = m.timestamp])
          ELSE B.old_sessions
     /\ A.current_session # <<>>
     /\ A.current_session[1].start_pos = m.pos
     /\ A.current_session[1].start_time = m.timestamp
     /\ A.current_session[1].end_pos = None
     /\ A.current_session[1].end_time = None
     /\ Len(A.current_session[1].markers) >= 1
     /\ A.current_session[1].markers[1] = m

\* C1: whenever a scan handles a marker line named START, the session open
\* before it (if any) is moved to the end of the history with end position
\* and end time equal to the marker's, and a new open session starts at the
\* marker's position and time with the START marker first in its marker list.
C1_StartOpensSession ==
  [][Scan =>
       \A p \in LineStarts(file, log.current_pos) :
         (MarkerAt(p) # <<>> /\ MarkerAt(p)[1].name = "START")
           => StartHandled(p)]_vars

\* A scan has handled a START marker while a session was open: the history's
\* last session ends where the open session starts.
C1_Witness ==
  /\ log.old_sessions # <<>>
  /\ log.current_session # <<>>
  /\ log.old_sessions[Len(log.old_sessions)].end_pos
       = log.current_session[1].start_pos
  /\ log.old_sessions[Len(log.old_sessions)].end_time
       = log.current_session[1].start_time

\* C2: whenever a scan handles a STOP, SHUTDOWN or ERROR marker while a
\* session is open, afterwards no session is open and the history's last
\* element is that session with the marker appended to its marker list and
\* its end position and end time equal to the marker's.
C2_TerminatorClosesSession ==
  [][Scan =>
       \A p \in LineStarts(file, log.current_pos) :
         (/\ MarkerAt(p) # <<>>
          /\ MarkerAt(p)[1].name \in Terminating
          /\ Before(p).current_session # <<>>)
           => /\ After(p).current_session = <<>>
              /\ After(p).old_sessions =
                   Append(Before(p).old_sessions,
                          [Before(p).current_session[1] EXCEPT
                             !.markers = Append(@, MarkerAt(p)[1]),
                             !.end_pos = p,
                             !.end_time = MarkerAt(p)[1].timestamp])]_vars

\* A scan has handled a SHUTDOWN marker while a session was open: no session
\* is open and the history's last session ends at that marker.
C2_Witness ==
  /\ log.old_sessions # <<>>
  /\ log.current_session = <<>>
  /\ LET s == log.old_sessions[Len(log.old_sessions)] IN
       /\ s.markers[Len(s.markers)].name = "SHUTDOWN"
       /\ s.end_pos = s.markers[Len(s.markers)].pos
       /\ s.end_pos > s.start_pos

\* C3: whenever a scan handles a marker other than START while no session is
\* open, the history and the (absent) open session are unchanged by it.
C3_OrphanMarkerDiscarded ==
  [][Scan =>
       \A p \in LineStarts(file, log.current_pos) :
         (/\ MarkerAt(p) # <<>>
          /\ MarkerAt(p)[1].name # "START"
          /\ Before(p).current_session = <<>>)
           => /\ After(p).current_session = <<>>
              /\ After(p).old_sessions = Before(p).old_sessions]_vars

\* A scan has handled a STOP marker line that stands before any START.
C3_Witness ==
  /\ handled # <<>>
  /\ from_line(handled[1]) # <<>>
  /\ from_line(handled[1])[1].name = "STOP"
  /\ log.old_sessions = <<>>
  /\ log.current_session = <<>>

AllSessions(L) == L.old_sessions \o L.current_session

SessionsWellFormed(L) ==
  /\ Cardinality({i \in 1..Len(AllSessions(L)) :
                    AllSessions(L)[i].end_pos = None}) <= 1
  /\ \A i \in 1..Len(L.current_session) :
       /\ L.current_session[i].end_pos = None
       /\ L.current_session[i].end_time = None
  /\ \A i \in 1..Len(L.old_sessions) :
       /\ L.old_sessions[i].end_pos # None
       /\ L.old_sessions[i].end_time # None

\* C4: at most one session is open, the open session has no end position or
\* end time, every session of the history has both, and every step leaves
\* the earlier history a prefix of the later one.
C4_OneOpenSessionHistoryAppendOnly ==
  [][/\ SessionsWellFormed(log')
     /\ IsPrefix(log.old_sessions, log'.old_sessions)]_vars

\* Two sessions are in the history and a third is open.
C4_Witness ==
  /\ Len(log.old_sessions) >= 2
  /\ log.current_session # <<>>

\* The part of the file the cursor has passed.
Scanned == SubSeq(file, 1, log.current_pos)

OrdinaryLine(line) == line = TextLine
WellFormedMarkerLine(line) ==
  /\ Len(line) = 3
  /\ line[1].k = "mhead" /\ line[1].name \in MarkerNames /\ line[1].ts # 0
  /\ line[2] = MTAIL
  /\ line[3] = NL

\* The scanned log is made of ordinary lines and well-formed marker lines,
\* and these are the lines the scans handled.
PlainLogScanned ==
  /\ handled = LinesRead(Scanned, 0)
  /\ \A i \in 1..Len(handled) :
       OrdinaryLine(handled[i]) \/ WellFormedMarkerLine(handled[i])

NameAt(f, p) == readline(f, p)[1].name
TimeAt(f, p) == readline(f, p)[1].ts
MarkersNamed(f, names) ==
  {p \in LineStarts(f, 0) :
     readline(f, p)[1].k = "mhead" /\ NameAt(f, p) \in names}
Kth(S, k) == CHOOSE p \in S : Cardinality({q \in S : q < p}) = k - 1
Least(S) == CHOOSE p \in S : \A q \in S : p <= q

\* C5: after scanning a log of ordinary lines and well-formed marker lines,
\* there are as many sessions (history plus the open one) as START markers;
\* the k-th session starts at the k-th START marker's position and time and
\* ends at the position and time of the first STOP, SHUTDOWN, ERROR or START
\* marker after it; it is the open session, with no end, iff no such marker
\* follows.
C5_SessionsReconstructed ==
  PlainLogScanned =>
    LET f == Scanned
        starts == MarkersNamed(f, {"START"})
        enders == MarkersNamed(f, Terminating \cup {"START"})
        all == AllSessions(log)
    IN /\ Len(all) = Cardinality(starts)
       /\ \A k \in 1..Len(all) :
            LET p == Kth(starts, k)
                after == {q \in enders : q > p}
            IN /\ all[k].start_pos = p
               /\ all[k].start_time = TimeAt(f, p)
               /\ IF after = {}
                  THEN /\ k = Len(all)
                       /\ log.current_session # <<>>
                       /\ all[k].end_pos = None
                       /\ all[k].end_time = None
                  ELSE /\ k <= Len(log.old_sessions)
                       /\ all[k].end_pos = Least(after)
                       /\ all[k].end_time = TimeAt(f, Least(after))
       /\ log.current_session # <<>> <=>
            \E p \in starts : \A q \in enders : q <= p

\* The log START(t0), two lines, STOP(t1), START(t2), one line has been
\* scanned: one closed session t0..t1 and one open session starting at t2.
C5_Witness ==
  /\ file = ExampleLog
  /\ log.current_pos = Len(ExampleLog)
  /\ PlainLogScanned
  /\ Len(log.old_sessions) = 1
  /\ log.old_sessions[1].start_time = ClockAt(0)
  /\ log.old_sessions[1].end_time = ClockAt(7)
  /\ log.current_session # <<>>
  /\ log.current_session[1].start_time = ClockAt(10)
  /\ log.current_session[1].end_time = None

\* C6: a trailing partial line is not consumed: the cursor rests at the start
\* of a line and every line handed to marker handling ends in a terminator.
C6_PartialLineNotConsumed ==
  /\ log.current_pos = 0 \/ file[log.current_pos].k = "nl"
  /\ \A i \in 1..Len(handled) : handled[i][Len(handled[i])].k = "nl"

OpenSessionStart == log.current_session[1].start_pos

UnclampedStart ==
  Max(0, rd.file_size - Min(rd.num_bytes, log.max_read_size)
           - rd.backwards_offset)

\* C7: read_end with respect_current_session true while a session is open
\* starts at an offset not less than the open session's start position and
\* returns nothing located before it; with no open session or the flag
\* false it starts at max(0, fileSize - min(numBytes, maxReadSize)
\* - backwardsOffset).
C7_ReadEndClamped ==
  rd.called =>
    /\ (rd.respect /\ log.current_session # <<>>)
         => /\ rd.ret.start >= OpenSessionStart
            /\ \A i \in rd.ret.data : i >= OpenSessionStart
    /\ (~rd.respect \/ log.current_session = <<>>)
         => rd.ret.start = UnclampedStart

\* A tail read was clamped: the arguments reach back before the open
\* session's start, and the read starts at that start and returns data.
C7_Witness ==
  /\ rd.called /\ rd.respect
  /\ log.current_session # <<>>
  /\ OpenSessionStart > 0
  /\ UnclampedStart < OpenSessionStart
  /\ rd.ret.start = OpenSessionStart
  /\ rd.ret.data # {}

\* ======================================================================
\* Properties of the packet codec and the connections
\* ======================================================================

\* The frames of packets, one after the other.
RECURSIVE FramesOf(_)
FramesOf(packets) ==
  IF packets = <<>> THEN <<>>
  ELSE to_bytes(Head(packets)) \o FramesOf(Tail(packets))

\* The bytes client id has sent, and how many of them the agent has received.
SentBytes(id) == FramesOf(socks[id].sent)
ReceivedLen(id) == Len(SentBytes(id)) - Len(socks[id].stream)

\* The offset in the sent bytes at which the n-th frame ends.
FrameEnd(id, n) == Len(FramesOf(SubSeq(socks[id].sent, 1, n)))

\* The number of frames whose last byte the agent has received.
Delivered(id) ==
  Cardinality({n \in 1..Len(socks[id].sent) :
                 FrameEnd(id, n) <= ReceivedLen(id)})

SamePacket(p, q) ==
  /\ p.type = q.type
  /\ p.sub_type = q.sub_type
  /\ p.bytes = q.bytes

\* C8: however the bytes of the valid frames a client sends are cut into
\* chunks by recv, get_next_packet has returned no packet for a frame whose
\* last byte has not arrived; the packets it has returned are the frames
\* sent, one each and in the order sent; the buffer holds exactly the bytes
\* received after the frames returned, so each return removed exactly its
\* frame from the front; and it returns no packet only when every fully
\* delivered frame has been returned.
C8_FramesExtractedInOrder ==
  /\ Len(extracted) <= Delivered(1)
  /\ \A i \in 1..Len(extracted) :
       /\ extracted[i].id = 1
       /\ SamePacket(extracted[i].packet, socks[1].sent[i])
  /\ connections[1].buffer =
       SubSeq(SentBytes(1), FrameEnd(1, Len(extracted)) + 1, ReceivedLen(1))
  /\ ret # "raise"
  /\ (ret = "None" => Len(extracted) = Delivered(1))

\* Two frames have arrived in full; the first has been returned and the
\* second is still in the buffer.
C8_Witness ==
  /\ Delivered(1) = 2
  /\ Len(extracted) = 1
  /\ ret = "packet"
  /\ connections[1].buffer = to_bytes(socks[1].sent[2])

\* C9 as stated: at the end of a tick that raised no exception, no open
\* connection's buffer starts with a complete frame.  tick calls
\* get_next_packet once per connection, so a second frame received by the
\* same recv stays in the buffer.
C9_NoCompleteFrameLeft ==
  ~crashed =>
    \A i \in 1..Len(connections) :
      ~connections[i].closed => ~check_complete(connections[i].buffer)

\* The case of C10: a packet of a valid type whose sub-type is at most 8
\* bytes in UTF-8 has been built, encoded and decoded.
RoundTripCase ==
  /\ codec.pc = "decoded"
  /\ codec.type \in {RAW, JSON}
  /\ Len(Utf8Encode(codec.sub_type)) <= MAX_SUBTYPE_LEN

\* Decoding gave the packet back and took exactly its frame off the buffer.
RoundTrips ==
  /\ codec.got.ret = "packet"
  /\ SamePacket(codec.got.packet, codec.packet)
  /\ from_buffer(to_bytes(codec.packet)).ok
  /\ SamePacket(from_buffer(to_bytes(codec.packet)), codec.packet)
  /\ Len(codec.buffer) - Len(codec.got.buffer)
       = HEADER_SIZE + Len(codec.packet.bytes)
  /\ codec.got.buffer = codec.following

EndsInNul(str) == str # <<>> /\ str[Len(str)] = 0

\* C10 as stated: every packet with a valid type and a sub-type of at most
\* 8 UTF-8 bytes is decoded from its encoding equal in type, sub-type and
\* payload, consuming exactly 13 + len(payload) bytes.
C10_RoundTripAsStated ==
  RoundTripCase => RoundTrips

\* C10, amended: every packet with a valid type and a sub-type of at most 8
\* UTF-8 bytes that does not end in a NUL character is decoded from its
\* encoding equal in type, sub-type and payload, consuming exactly
\* 13 + len(payload) bytes.
C10_RoundTrip ==
  (RoundTripCase /\ ~EndsInNul(codec.sub_type)) => RoundTrips

\* A packet whose sub-type holds a NUL and a two-byte character and whose
\* payload length needs two bytes has gone round, with bytes following it.
C10_Witness ==
  /\ RoundTripCase
  /\ codec.sub_type = <<0, EAcute, LetterA>>
  /\ Len(codec.raw_bytes) > 255
  /\ codec.following # <<>>
  /\ RoundTrips

\* C11 as stated: a packet whose sub-type takes more than 8 bytes in UTF-8
\* is never constructed, so no frame is ever encoded from one.  __init__
\* counts the characters of the sub-type, not its bytes.
C11_LongSubTypeRejected ==
  (codec.pc # "args" /\ Len(Utf8Encode(codec.sub_type)) > MAX_SUBTYPE_LEN)
    => codec.pc = "rejected"

\* The buffer holds a whole header whose LENGTH puts the frame above the cap.
OversizeBuffered(c) ==
  /\ Len(c.buffer) >= HEADER_SIZE
  /\ HEADER_SIZE + get_length(SubSeq(c.buffer, 10, 13)) > MAX_PACKET_SIZE

\* C12 as stated: once such a header is in the buffer, get_next_packet
\* treats it as a protocol violation (an error, or the connection closed)
\* and not as a frame to keep waiting for.  check_complete never looks at
\* MAX_PACKET_SIZE, so get_next_packet returns None and the bytes that
\* follow keep piling up in the buffer.
C12_OversizeHeaderRejected ==
  (OversizeBuffered(connections[1]) /\ ret # "idle")
    => (ret = "raise" \/ connections[1].closed)

\* C13 as stated: whatever the clients send, no exception leaves
\* hosting.tick.  tick has no try block around get_next_packet or the
\* handlers, so a ValueError from Packet.__init__ or a KeyError from the
\* PRINT_J handler ends the tick, and the agent's loop with it.
C13_TickNeverRaises ==
  ~crashed

\* C14 as stated: when a tick has ended, no connection in
\* hosting.connections has its closed flag set.  tick removes the closed
\* connections before its loop, so one closed in the loop stays listed
\* until the next tick.
C14_NoClosedConnectionAfterTick ==
  ~crashed =>
    \A i \in 1..Len(connections) : ~connections[i].closed

\* The positions of the marker lines scanned within session s: from its
\* START marker up to the marker that ended it, that marker included unless
\* it is the START marker of the next session.
MarkersWithin(f, s) ==
  {p \in MarkersNamed(f, MarkerNames) :
     /\ s.start_pos <= p
     /\ \/ s.end_pos = None
        \/ p < s.end_pos
        \/ p = s.end_pos /\ NameAt(f, p) \in Terminating}

\* C19 as stated: after scanning a log of ordinary lines and well-formed
\* marker lines, the marker list of every session holds the marker lines
\* scanned within the session, each once, in file order.  __handle_line
\* appends the START marker when it opens the session and once more at its
\* end, so every session lists its START marker twice.
C19_MarkersListedOnce ==
  PlainLogScanned =>
    \A k \in 1..Len(AllSessions(log)) :
      LET s == AllSessions(log)[k]
          within == MarkersWithin(Scanned, s)
      IN /\ Len(s.markers) = Cardinality(within)
         /\ \A i \in 1..Len(s.markers) :
              i <= Cardinality(within) => s.markers[i].pos = Kth(within, i)

\* C20 as stated, its safety part: when the client script has closed its
\* end and its connection is no longer in hosting.connections, every frame
\* it sent has been extracted and dispatched.  A tick takes one frame per
\* connection, the tick whose recv returns b"" marks the connection closed,
\* and the next tick removes it with whatever its buffer still holds.
C20_NoFrameDropped ==
  (/\ socks[1].used /\ ~socks[1].open
   /\ backlog = <<>> /\ connections = <<>>
   /\ ~crashed)
    => Len(extracted) = Len(socks[1].sent)

\* ======================================================================
\* Properties of the service
\* ======================================================================

\* Command a is among cmds.
Ran(cmds, a) == \E i \in 1..Len(cmds) : cmds[i] = a

\* cmds holds a once and b once, a first.
Precedes(cmds, a, b) ==
  /\ Cardinality({i \in 1..Len(cmds) : cmds[i] = a}) = 1
  /\ Cardinality({i \in 1..Len(cmds) : cmds[i] = b}) = 1
  /\ \E i, j \in 1..Len(cmds) : i < j /\ cmds[i] = a /\ cmds[j] = b

\* C15: an is_running(False) call made within the stale timeout of the last
\* query returns the cached result, asks the process host nothing and
\* leaves the cache as it is, whatever the host's state is by then, so two
\* such calls return the same; an is_running(True) call asks the host,
\* returns its answer and stores it as the cached result with a fresh
\* timestamp.
C15_IsRunningCached ==
  [][called'.op = "is_running" =>
       IF called'.force
       THEN /\ called'.cmds = <<"tmux has-session">>
            /\ called'.ret = tmux.session
            /\ service'.result = tmux.session
            /\ service'.age = 0
       ELSE service.age <= STALE_TIMEOUT =>
              /\ called'.ret = service.result
              /\ called'.cmds = <<>>
              /\ service' = service]_vars

\* An is_running(False) call has returned the cached answer although the
\* host's session state had changed since.
C15_Witness ==
  /\ called.op = "is_running" /\ ~called.force
  /\ called.cmds = <<>>
  /\ called.ret = service.result
  /\ called.ret # tmux.session

\* C16: start_service on a stopped service returns TRUE and the host has the
\* session; a start_service right after a start_service that returned TRUE
\* returns FALSE, writes nothing to the log and launches nothing;
\* stop_service with no session returns FALSE, writes nothing and kills
\* nothing.
C16_StartStopIdempotent ==
  [][/\ (called'.op = "start_service" /\ ~tmux.session)
          => (called'.ret /\ tmux'.session)
     /\ (called'.op = "start_service" /\ called.op = "start_service"
           /\ called.ret)
          => /\ ~called'.ret
             /\ file' = file
             /\ ~Ran(called'.cmds, "write START")
             /\ ~Ran(called'.cmds, "tmux new-session")
     /\ (called'.op = "stop_service" /\ ~tmux.session)
          => /\ ~called'.ret
             /\ file' = file
             /\ ~Ran(called'.cmds, "write STOP")
             /\ ~Ran(called'.cmds, "tmux kill-session")]_vars

\* A start_service has returned FALSE on the session the call before it
\* launched: the log ends with that one START marker.
C16_Witness ==
  /\ called.op = "start_service" /\ ~called.ret
  /\ tmux.session
  /\ file = MarkerLine("START", 0)

\* C17: a tick with auto_start set and no session launches the session and
\* writes the START marker; a tick with the session alive launches nothing
\* and writes nothing; a tick with auto_start not set launches nothing and
\* writes nothing.
C17_AutoStartConverges ==
  [][called'.op = "tick" =>
       /\ (service.auto_start /\ ~tmux.session)
            => /\ tmux'.session
               /\ file' = file \o MarkerLine("START", Len(file))
               /\ Ran(called'.cmds, "tmux new-session")
       /\ (tmux.session \/ ~service.auto_start)
            => /\ tmux' = tmux
               /\ file' = file
               /\ ~Ran(called'.cmds, "write START")
               /\ ~Ran(called'.cmds, "tmux new-session")]_vars

\* A tick has found the session it launched earlier alive and has started
\* nothing: the log holds the one START marker.
C17_Witness ==
  /\ called.op = "tick" /\ ~called.ret
  /\ service.auto_start
  /\ tmux.session
  /\ Ran(called.cmds, "tmux has-session")
  /\ file = MarkerLine("START", 0)

\* C18: a start (by start_service or by tick) that succeeds writes the START
\* marker at the end of the log before it asks the host to launch the
\* session and before it sets up the piping; a stop_service that succeeds
\* asks the host to kill the session before it writes the STOP marker.
C18_MarkerOrder ==
  [][/\ (called'.op \in {"start_service", "tick"} /\ called'.ret)
          => /\ Precedes(called'.cmds, "write START", "tmux new-session")
             /\ Precedes(called'.cmds, "write START", "tmux pipe-pane")
             /\ file' = file \o MarkerLine("START", Len(file))
     /\ (called'.op = "stop_service" /\ called'.ret)
          => /\ Precedes(called'.cmds, "tmux kill-session", "write STOP")
             /\ file' = file \o MarkerLine("STOP", Len(file))]_vars

\* A session was started, printed a line and was stopped.
C18_Witness ==
  /\ called.op = "stop_service" /\ called.ret
  /\ ~tmux.session
  /\ Len(file) > Len(MarkerLine("START", 0) \o TextLine)
  /\ IsPrefix(MarkerLine("START", 0) \o TextLine, file)

\* C21 as stated: an is_running(False) call that directly follows a
\* start_service that returned TRUE returns TRUE, and one that directly
\* follows a stop_service that returned TRUE returns FALSE.  Both handlers
\* call is_running(True) before they change the session and never touch the
\* cache afterwards, so for the next 0.5 s the cache holds the answer from
\* before the change.
C21_CacheFollowsStartStop ==
  [][(called'.op = "is_running" /\ ~called'.force /\ called.ret)
       => /\ called.op = "start_service" => called'.ret
          /\ called.op = "stop_service" => ~called'.ret]_vars

====
